---------------------------- MODULE Spec2Model ----------------------------
(***************************************************************************)
(* State-machine model of the polls API (src/polls): the relational store  *)
(* of Question, Choice and Vote rows, the three viewsets with their        *)
(* permission classes and serializer validation, and the clock that the    *)
(* published-question filter reads.                                        *)
(*                                                                         *)
(* A step is one HTTP request handled to completion (or one tick of the    *)
(* clock).  Every handler is a pair of operators over the current store:   *)
(* X_status(request) is the status code it answers and X_votes / X_db the  *)
(* rows it leaves behind; the action X writes those rows.  An exception    *)
(* that no handler catches is answered 500.                                *)
(***************************************************************************)
EXTENDS Integers, Sequences, FiniteSets, TLC

\* ------------------------------------------------------------------ bounds
MaxTime == 1        \* the clock runs over 0..MaxTime
MaxQuestions == 2   \* question rows ever inserted
MaxVotes == 2       \* vote rows ever inserted
MaxPending == 2     \* vote POSTs in flight at once

\* ----------------------------------------------------- inputs of requests
Users == {"u1", "u2"}
AnonymousUser == "anonymous"
Requesters == Users \cup {AnonymousUser}
QuestionTexts == {"a", "b"}
Dates == 0..MaxTime
HideInputs == {"omitted", "true", "false"}

\* n pairwise distinct choice texts.
DistinctTexts(n) == [i \in 1..n |-> i]
\* n choice texts whose last repeats the first.
RepeatingTexts(n) == [i \in 1..n |-> IF i = n THEN 1 ELSE i]

\* Choice arrays posted in the full API specification.
SmallChoiceLists ==
    { <<>>, <<1>>, <<1, 2>>, <<1, 1>> }
\* Choice arrays around both limits of validate_choices.
BoundaryChoiceLists ==
    { <<>>, <<1>>, <<1, 2>>, <<1, 1>>, <<1, 2, 1>>,
      DistinctTexts(19), DistinctTexts(20), DistinctTexts(21),
      RepeatingTexts(20), RepeatingTexts(21) }
\* Choice arrays handed to the manager directly (no serializer in front).
ManagerChoiceLists ==
    { <<>>, <<1>>, <<1, 2>>, <<1, 1>>, <<1, 2, 3>>, <<1, 2, 1>>, <<1, 2, 2>> }

\* ------------------------------------------------------------------- state
VARIABLES
    questions,      \* Question rows: [id, author, question_text, date_published, date_created]
    choices,        \* Choice rows:   [id, question, choice_text]
    votes,          \* Vote rows:     [id, voter, choice, hide_voter]
    next_question,  \* next primary key of each table
    next_choice,
    next_vote,
    now,            \* timezone.now()
    queryset_now,   \* the timezone.now() captured in QuestionViewSet.queryset
    pending         \* vote POSTs between serializer.is_valid and perform_create

vars == <<questions, choices, votes, next_question, next_choice, next_vote,
          now, queryset_now, pending>>
store == <<questions, choices, votes, next_question, next_choice, next_vote>>

\* ------------------------------------------------------------ model layer
NoChoice == 0   \* validated_data.get("choice") is None

QuestionRow(pk) == CHOOSE q \in questions : q.id = pk
ChoiceRow(pk) == CHOOSE c \in choices : c.id = pk
VoteRow(pk) == CHOOSE v \in votes : v.id = pk

QuestionExists(pk) == \E q \in questions : q.id = pk
\* Choice.question of the choice with primary key choice_pk
question_of(choice_pk) == ChoiceRow(choice_pk).question
ChoiceExists(pk) == \E c \in choices : c.id = pk

\* question.choices : the related manager of Choice.question
question_choices(qs, question_pk) == {c \in qs : c.question = question_pk}

\* ChoiceManager.with_vote_count : Count("vote") of one choice
with_vote_count(choice_pk) == Cardinality({v \in votes : v.choice = choice_pk})

\* get_queryset without the date_published__gt test
published_objects_any_date(t) ==
    {q \in questions : Cardinality(question_choices(choices, q.id)) # 0}
\* PublishedQuestionManager.get_queryset evaluated with timezone.now() = t
published_objects(t) ==
    {q \in questions :
        ~(q.date_published > t \/ Cardinality(question_choices(choices, q.id)) = 0)}

\* Question.published_objects.get(pk=...) raises DoesNotExist when FALSE
published_objects_has(t, pk) == \E q \in published_objects(t) : q.id = pk

\* QuestionViewSet.queryset : built once, when the class body is executed
QuestionViewSet_queryset == published_objects(queryset_now)

\* The block without @transaction.atomic: its writes survive a raise
transaction_non_atomic(before, after) == after
\* @transaction.atomic : the block's writes survive only if it did not raise
transaction_atomic(before, after) ==
    IF after.ok THEN after ELSE [before EXCEPT !.ok = FALSE]

\* The loop of QuestionManager.create over the choices, from index i on.
RECURSIVE save_choices(_, _, _, _)
save_choices(db, question_pk, texts, i) ==
    IF i > Len(texts) THEN db
    ELSE IF \E c \in db.choices :
                c.question = question_pk /\ c.choice_text = texts[i]
         THEN [db EXCEPT !.ok = FALSE]       \* unique_choices_per_question
         ELSE save_choices(
                [db EXCEPT !.choices = @ \cup {[id |-> db.next_choice,
                                                question |-> question_pk,
                                                choice_text |-> texts[i]]},
                           !.next_choice = @ + 1],
                question_pk, texts, i + 1)

\* QuestionManager.create : db is [ok, questions, choices, next_question, next_choice]
QuestionManager_create(db, author, question_text, date_published, texts) ==
    LET pk == db.next_question
        saved == [db EXCEPT !.questions = @ \cup {[id |-> pk,
                                                   author |-> author,
                                                   question_text |-> question_text,
                                                   date_published |-> date_published,
                                                   date_created |-> now]},
                            !.next_question = @ + 1]
        after == IF \E q \in db.questions : q.question_text = question_text
                 THEN [db EXCEPT !.ok = FALSE]     \* unique=True
                 ELSE save_choices(saved, pk, texts, 1)
    IN  transaction_atomic(db, after)

CurrentDb == [ok |-> TRUE, questions |-> questions, choices |-> choices,
              next_question |-> next_question, next_choice |-> next_choice]

\* The cascade that stops at the choices and keeps their votes
cascade_votes_kept(question_pk) == votes
\* on_delete=CASCADE from Question through Choice to Vote
cascade_choices(question_pk) == {c \in choices : c.question # question_pk}
cascade_votes(question_pk) ==
    {v \in votes : \A c \in choices : c.id = v.choice => c.question # question_pk}

\* ------------------------------------------------------------ permissions
is_authenticated(user) == user # AnonymousUser

IsAuthorOrReadOnly_has_permission(user) == is_authenticated(user)
IsAuthorOrReadOnly_has_object_permission(user, method, obj) ==
    IF method \in {"GET", "HEAD", "OPTIONS", "POST"} THEN TRUE
    ELSE obj.author = user

\* has_permission that lets every requester in
IsVoterOnly_allow_any(user) == TRUE
IsVoterOnly_has_permission(user) == is_authenticated(user)
\* has_object_permission that returns True for every requester
IsVoterOnly_object_allow_any(user, obj) == TRUE
IsVoterOnly_has_object_permission(user, obj) == obj.voter = user

\* The project-wide default permission class that guards ChoiceViewSet.
DefaultPermission_has_permission(user) == is_authenticated(user)


\* ------------------------------------------------------------ serializers
\* validate_choices with the upper limit off by one (>= 22 instead of > 20)
validate_choices_off_by_one(texts) ==
    IF Len(texts) < 2 THEN FALSE
    ELSE IF Len(texts) > 21 THEN FALSE
    ELSE IF Cardinality({texts[i] : i \in 1..Len(texts)}) # Len(texts) THEN FALSE
    ELSE TRUE

\* QuestionSerializer.validate_choices : TRUE when it returns, FALSE when it
\* raises ValidationError
validate_choices(texts) ==
    IF Len(texts) < 2 THEN FALSE
    ELSE IF Len(texts) > 20 THEN FALSE
    ELSE IF Cardinality({texts[i] : i \in 1..Len(texts)}) # Len(texts) THEN FALSE
    ELSE TRUE

\* The uniqueness test run against the published questions only
question_text_is_unique_published(question_text) ==
    ~ \E q \in published_objects(now) : q.question_text = question_text

\* The UniqueValidator that unique=True puts on question_text; it queries the
\* default manager Question.objects, which does not filter on publication.
question_text_is_unique(question_text) ==
    ~ \E q \in questions : q.question_text = question_text

QuestionSerializer_is_valid(question_text, texts) ==
    question_text_is_unique(question_text) /\ validate_choices(texts)

\* validate_choice without the membership test (a dropped check)
validate_choice_any_choice(question_pk, choice) ==
    IF ~published_objects_has(now, question_pk) THEN "DoesNotExist" ELSE "valid"

\* VoteSerializer.validate_choice : "valid", "ValidationError" (answered 400)
\* or "DoesNotExist" (the uncaught Question.DoesNotExist)
validate_choice(question_pk, choice) ==
    IF ~published_objects_has(now, question_pk) THEN "DoesNotExist"
    ELSE IF ~ \E c \in question_choices(choices, question_pk) : c.id = choice
         THEN "ValidationError"
         ELSE "valid"

\* The choice field of VoteSerializer: a primary-key field over all choices,
\* not required, followed by validate_choice when the field is present.
VoteSerializer_choice_field(question_pk, body) ==
    IF body.choice = NoChoice THEN "valid"
    ELSE IF ~ChoiceExists(body.choice) THEN "ValidationError"
    ELSE validate_choice(question_pk, body.choice)

\* VoteSerializer.validate
validate(question_pk, user, method) ==
    IF ~published_objects_has(now, question_pk) THEN "DoesNotExist"
    ELSE IF method = "POST"
            /\ \E c \in question_choices(choices, question_pk) :
                  \E v \in votes : v.choice = c.id /\ v.voter = user
         THEN "ValidationError"
         ELSE "valid"

\* serializer.is_valid : field validation first, then validate
VoteSerializer_is_valid(question_pk, user, method, body) ==
    LET field == VoteSerializer_choice_field(question_pk, body)
    IN  IF field # "valid" THEN field ELSE validate(question_pk, user, method)

\* get_voter_username that ignores hide_voter
get_voter_username_shown(obj) == obj.voter
\* VoteSerializer.get_voter_username
get_voter_username(obj) == IF obj.hide_voter THEN "*******" ELSE obj.voter

\* The representation of a vote: choice and hide_voter are write_only
VoteSerializer_data(obj) ==
    [id |-> obj.id, voter_username |-> get_voter_username(obj)]

\* What the serializer keeps of a request body that also carries a voter:
\* voter is not among Meta.fields, so the key is dropped
VoteSerializer_to_internal_value(data) ==
    [choice |-> data.choice, hide_voter |-> data.hide_voter]

\* hide_voter of the row written from a body: the model default on create,
\* the stored value on update, when the body omits the field
hide_voter_value(body, default) ==
    IF body.hide_voter = "omitted" THEN default ELSE body.hide_voter = "true"

\* ------------------------------------------------------------------ views
\* VoteViewSet.get_queryset
VoteViewSet_get_queryset(choice_pk) == {v \in votes : v.choice = choice_pk}
VoteViewSet_has_object(choice_pk, vote_pk) ==
    \E v \in VoteViewSet_get_queryset(choice_pk) : v.id = vote_pk

\* The choice VoteViewSet.perform_create saves the vote on
perform_create_choice(choice_pk, body) ==
    IF body.choice = NoChoice THEN choice_pk ELSE body.choice

\* POST /polls/{question_pk}/choices/{choice_pk}/votes/
VoteViewSet_create_status(user, question_pk, choice_pk, body) ==
    LET valid == VoteSerializer_is_valid(question_pk, user, "POST", body)
        choice == perform_create_choice(choice_pk, body)
    IN  IF ~IsVoterOnly_has_permission(user) THEN 403
        ELSE IF valid = "ValidationError" THEN 400
        ELSE IF valid = "DoesNotExist" THEN 500
        ELSE IF ~ChoiceExists(choice) THEN 500          \* Choice.DoesNotExist
        ELSE IF \E v \in votes : v.voter = user /\ v.choice = choice
             THEN 500                                   \* unique_voters_per_choice
        ELSE 201

\* create that saves the author of the path's question as the voter
VoteViewSet_create_votes_author_as_voter(user, question_pk, choice_pk, body) ==
    IF VoteViewSet_create_status(user, question_pk, choice_pk, body) = 201
    THEN votes \cup {[id |-> next_vote, voter |-> QuestionRow(question_pk).author,
                      choice |-> perform_create_choice(choice_pk, body),
                      hide_voter |-> hide_voter_value(body, TRUE)]}
    ELSE votes

VoteViewSet_create_votes(user, question_pk, choice_pk, body) ==
    IF VoteViewSet_create_status(user, question_pk, choice_pk, body) = 201
    THEN votes \cup {[id |-> next_vote, voter |-> user,
                      choice |-> perform_create_choice(choice_pk, body),
                      hide_voter |-> hide_voter_value(body, TRUE)]}
    ELSE votes

VoteViewSet_create(user, question_pk, choice_pk, body) ==
    /\ votes' = VoteViewSet_create_votes(user, question_pk, choice_pk, body)
    /\ votes' # votes => next_vote <= MaxVotes
    /\ next_vote' = IF votes' # votes THEN next_vote + 1 ELSE next_vote
    /\ UNCHANGED <<questions, choices, next_question, next_choice,
                   now, queryset_now, pending>>

\* The first half of create, up to serializer.is_valid: the request goes on
\* to perform_create when the permission check and the validation pass
VoteViewSet_create_is_valid(user, question_pk, choice_pk, body) ==
    /\ IsVoterOnly_has_permission(user)
    /\ VoteSerializer_is_valid(question_pk, user, "POST", body) = "valid"

VoteViewSet_create_begin(user, question_pk, choice_pk, body) ==
    /\ VoteViewSet_create_is_valid(user, question_pk, choice_pk, body)
    /\ Cardinality(pending) < MaxPending
    /\ pending' = pending \cup {[voter |-> user, question_pk |-> question_pk,
                                  choice_pk |-> choice_pk, body |-> body]}
    /\ UNCHANGED <<store, now, queryset_now>>

\* The second half of create: perform_create of a validated request, run
\* against the rows stored when it gets there
perform_create_status(request) ==
    LET choice == perform_create_choice(request.choice_pk, request.body)
    IN  IF ~ChoiceExists(choice) THEN 500               \* Choice.DoesNotExist
        ELSE IF \E v \in votes : v.voter = request.voter /\ v.choice = choice
             THEN 500                                   \* unique_voters_per_choice
        ELSE 201

perform_create_votes(request) ==
    IF perform_create_status(request) = 201
    THEN votes \cup {[id |-> next_vote, voter |-> request.voter,
                      choice |-> perform_create_choice(request.choice_pk,
                                                       request.body),
                      hide_voter |-> hide_voter_value(request.body, TRUE)]}
    ELSE votes

VoteViewSet_create_finish(request) ==
    /\ request \in pending
    /\ votes' = perform_create_votes(request)
    /\ votes' # votes => next_vote <= MaxVotes
    /\ next_vote' = IF votes' # votes THEN next_vote + 1 ELSE next_vote
    /\ pending' = pending \ {request}
    /\ UNCHANGED <<questions, choices, next_question, next_choice,
                   now, queryset_now>>

\* get_object and check_object_permissions of a vote route: found when the
\* vote is in get_queryset and the requester may touch it
VoteViewSet_object_status(user, choice_pk, vote_pk, found) ==
    IF ~IsVoterOnly_has_permission(user) THEN 403
    ELSE IF ~VoteViewSet_has_object(choice_pk, vote_pk) THEN 404
    ELSE IF ~IsVoterOnly_has_object_permission(user, VoteRow(vote_pk)) THEN 403
    ELSE found

\* The row a PUT or PATCH writes over the vote obj
perform_update_row(obj, body) ==
    [obj EXCEPT !.choice = IF body.choice = NoChoice THEN @ ELSE body.choice,
                !.hide_voter = hide_voter_value(body, @)]

\* PUT/PATCH /polls/{question_pk}/choices/{choice_pk}/votes/{vote_pk}/
VoteViewSet_update_status(user, question_pk, choice_pk, vote_pk, body, method) ==
    IF VoteViewSet_object_status(user, choice_pk, vote_pk, 200) # 200
    THEN VoteViewSet_object_status(user, choice_pk, vote_pk, 200)
    ELSE LET valid == VoteSerializer_is_valid(question_pk, user, method, body)
             row == perform_update_row(VoteRow(vote_pk), body)
         IN  IF valid = "ValidationError" THEN 400
             ELSE IF valid = "DoesNotExist" THEN 500
             ELSE IF \E v \in votes : /\ v.id # row.id
                                      /\ v.voter = row.voter
                                      /\ v.choice = row.choice
                  THEN 500                              \* unique_voters_per_choice
             ELSE 200

VoteViewSet_update_votes(user, question_pk, choice_pk, vote_pk, body, method) ==
    IF VoteViewSet_update_status(user, question_pk, choice_pk, vote_pk,
                                 body, method) = 200
    THEN (votes \ {VoteRow(vote_pk)})
            \cup {perform_update_row(VoteRow(vote_pk), body)}
    ELSE votes

VoteViewSet_update(user, question_pk, choice_pk, vote_pk, body, method) ==
    /\ votes' = VoteViewSet_update_votes(user, question_pk, choice_pk,
                                         vote_pk, body, method)
    /\ UNCHANGED <<questions, choices, next_question, next_choice,
                   next_vote, now, queryset_now, pending>>

\* DELETE /polls/{question_pk}/choices/{choice_pk}/votes/{vote_pk}/
VoteViewSet_destroy_status(user, question_pk, choice_pk, vote_pk) ==
    VoteViewSet_object_status(user, choice_pk, vote_pk, 204)

\* destroy that deletes the whole queryset of the path's choice
VoteViewSet_destroy_votes_queryset(user, question_pk, choice_pk, vote_pk) ==
    IF VoteViewSet_destroy_status(user, question_pk, choice_pk, vote_pk) = 204
    THEN votes \ VoteViewSet_get_queryset(choice_pk)
    ELSE votes

VoteViewSet_destroy_votes(user, question_pk, choice_pk, vote_pk) ==
    IF VoteViewSet_destroy_status(user, question_pk, choice_pk, vote_pk) = 204
    THEN votes \ {VoteRow(vote_pk)}
    ELSE votes

VoteViewSet_destroy(user, question_pk, choice_pk, vote_pk) ==
    /\ votes' = VoteViewSet_destroy_votes(user, question_pk, choice_pk, vote_pk)
    /\ UNCHANGED <<questions, choices, next_question, next_choice,
                   next_vote, now, queryset_now, pending>>

\* GET /polls/{question_pk}/choices/{choice_pk}/votes/{vote_pk}/
VoteViewSet_retrieve_status(user, question_pk, choice_pk, vote_pk) ==
    VoteViewSet_object_status(user, choice_pk, vote_pk, 200)

VoteViewSet_retrieve(user, question_pk, choice_pk, vote_pk) ==
    /\ VoteViewSet_retrieve_status(user, question_pk, choice_pk, vote_pk)
          \in {200, 403, 404}
    /\ UNCHANGED vars

\* GET /polls/{question_pk}/choices/{choice_pk}/votes/
VoteViewSet_list_status(user, question_pk, choice_pk) ==
    IF IsVoterOnly_has_permission(user) THEN 200 ELSE 403

VoteViewSet_list(user, question_pk, choice_pk) ==
    /\ VoteViewSet_list_status(user, question_pk, choice_pk) \in {200, 403}
    /\ UNCHANGED vars

\* The body of the vote list of a choice, read from the vote rows vs
VoteViewSet_list_data(vs, choice_pk) ==
    {VoteSerializer_data(v) : v \in {w \in vs : w.choice = choice_pk}}

\* The response of a GET on the vote obj that get_object found
VoteViewSet_retrieve_response(user, obj) ==
    IF ~IsVoterOnly_has_permission(user) THEN [status |-> 403]
    ELSE IF ~IsVoterOnly_has_object_permission(user, obj) THEN [status |-> 403]
    ELSE [status |-> 200, data |-> VoteSerializer_data(obj)]

\* ChoiceViewSet.get_queryset
ChoiceViewSet_get_queryset(question_pk) == question_choices(choices, question_pk)

\* GET /polls/{question_pk}/choices/
ChoiceViewSet_list_status(user, question_pk) ==
    IF DefaultPermission_has_permission(user) THEN 200 ELSE 403

ChoiceViewSet_list(user, question_pk) ==
    /\ ChoiceViewSet_list_status(user, question_pk) \in {200, 403}
    /\ UNCHANGED vars

\* GET /polls/{question_pk}/choices/{choice_pk}/
ChoiceViewSet_retrieve_status(user, question_pk, choice_pk) ==
    IF ~DefaultPermission_has_permission(user) THEN 403
    ELSE IF ~ \E c \in ChoiceViewSet_get_queryset(question_pk) : c.id = choice_pk
         THEN 404
         ELSE 200

ChoiceViewSet_retrieve(user, question_pk, choice_pk) ==
    /\ ChoiceViewSet_retrieve_status(user, question_pk, choice_pk)
          \in {200, 403, 404}
    /\ UNCHANGED vars

\* POST /polls/
QuestionViewSet_create_status(user, question_text, date_published, texts) ==
    IF ~IsAuthorOrReadOnly_has_permission(user) THEN 403
    ELSE IF ~QuestionSerializer_is_valid(question_text, texts) THEN 400
    ELSE IF ~QuestionManager_create(CurrentDb, user, question_text,
                                    date_published, texts).ok
         THEN 500                                       \* IntegrityError
         ELSE 201

QuestionViewSet_create_db(user, question_text, date_published, texts) ==
    IF QuestionViewSet_create_status(user, question_text, date_published, texts)
          \in {201, 500}
    THEN QuestionManager_create(CurrentDb, user, question_text,
                                date_published, texts)
    ELSE CurrentDb

\* Writes the outcome db of QuestionManager.create to the store
WriteDb(db) ==
    /\ questions' = db.questions
    /\ choices' = db.choices
    /\ next_question' = db.next_question
    /\ next_choice' = db.next_choice

QuestionViewSet_create(user, question_text, date_published, texts) ==
    /\ WriteDb(QuestionViewSet_create_db(user, question_text,
                                         date_published, texts))
    /\ questions' # questions => next_question <= MaxQuestions
    /\ UNCHANGED <<votes, next_vote, now, queryset_now, pending>>

QuestionViewSet_has_object(pk) == \E q \in QuestionViewSet_queryset : q.id = pk

\* get_object and check_object_permissions of /polls/{pk}/
QuestionViewSet_object_status(user, pk, method, found) ==
    IF ~IsAuthorOrReadOnly_has_permission(user) THEN 403
    ELSE IF ~QuestionViewSet_has_object(pk) THEN 404
    ELSE IF ~IsAuthorOrReadOnly_has_object_permission(user, method, QuestionRow(pk))
         THEN 403
         ELSE found

\* DELETE /polls/{pk}/
QuestionViewSet_destroy_status(user, pk) ==
    QuestionViewSet_object_status(user, pk, "DELETE", 204)

\* The rows a DELETE leaves: [questions, choices, votes]
CurrentRows == [questions |-> questions, choices |-> choices, votes |-> votes]
QuestionViewSet_destroy_rows(user, pk) ==
    IF QuestionViewSet_destroy_status(user, pk) = 204
    THEN [questions |-> questions \ {QuestionRow(pk)},
          choices |-> cascade_choices(pk),
          votes |-> cascade_votes(pk)]
    ELSE CurrentRows

QuestionViewSet_destroy(user, pk) ==
    /\ questions' = QuestionViewSet_destroy_rows(user, pk).questions
    /\ choices' = QuestionViewSet_destroy_rows(user, pk).choices
    /\ votes' = QuestionViewSet_destroy_rows(user, pk).votes
    /\ UNCHANGED <<next_question, next_choice, next_vote, now, queryset_now,
                   pending>>

\* GET /polls/{pk}/
QuestionViewSet_retrieve_status(user, pk) ==
    QuestionViewSet_object_status(user, pk, "GET", 200)

QuestionViewSet_retrieve(user, pk) ==
    /\ QuestionViewSet_retrieve_status(user, pk) \in {200, 403, 404}
    /\ UNCHANGED vars

\* GET /polls/ : the status and the listed questions
QuestionViewSet_list_status(user) ==
    IF IsAuthorOrReadOnly_has_permission(user) THEN 200 ELSE 403

QuestionViewSet_list(user) ==
    /\ QuestionViewSet_list_status(user) \in {200, 403}
    /\ UNCHANGED vars

\* order_by("-date_published") : the orders the database may return the rows
\* of qs in (rows with equal dates come in any order)
order_by_date_published_desc(qs) ==
    {s \in [1..Cardinality(qs) -> qs] :
        /\ \A i, j \in 1..Cardinality(qs) : i # j => s[i] # s[j]
        /\ \A i, j \in 1..Cardinality(qs) :
              i < j => s[i].date_published >= s[j].date_published}

\* The bodies GET /polls/ may answer with
QuestionViewSet_list_data == order_by_date_published_desc(QuestionViewSet_queryset)

\* The verbs each route maps to an action (urls.py and the viewsets' mixins)
Routes == {"question-list", "question-detail", "question-choice-list",
           "question-choice-detail", "question-choice-vote-list",
           "question-choice-vote-detail"}
Methods == {"GET", "POST", "PUT", "PATCH", "DELETE"}
\* The detail routes of questions and choices with the update mixin left in
allowed_methods_with_update(route) ==
    CASE route = "question-list" -> {"GET", "POST"}
      [] route = "question-detail" -> {"GET", "PUT", "PATCH", "DELETE"}
      [] route = "question-choice-list" -> {"GET"}
      [] route = "question-choice-detail" -> {"GET", "PUT", "PATCH"}
      [] route = "question-choice-vote-list" -> {"GET", "POST"}
      [] route = "question-choice-vote-detail" -> {"GET", "PUT", "PATCH", "DELETE"}
allowed_methods(route) ==
    CASE route = "question-list" -> {"GET", "POST"}
      [] route = "question-detail" -> {"GET", "DELETE"}
      [] route = "question-choice-list" -> {"GET"}
      [] route = "question-choice-detail" -> {"GET"}
      [] route = "question-choice-vote-list" -> {"GET", "POST"}
      [] route = "question-choice-vote-detail" -> {"GET", "PUT", "PATCH", "DELETE"}

\* The has_permission of the route's view, run by initial() before dispatch
route_has_permission(route, user) ==
    CASE route \in {"question-list", "question-detail"} ->
            IsAuthorOrReadOnly_has_permission(user)
      [] route \in {"question-choice-list", "question-choice-detail"} ->
            DefaultPermission_has_permission(user)
      [] route \in {"question-choice-vote-list", "question-choice-vote-detail"} ->
            IsVoterOnly_has_permission(user)

\* A verb the route maps to no action: http_method_not_allowed
MethodNotAllowed_status(user, route, method) ==
    IF route_has_permission(route, user) THEN 405 ELSE 403

MethodNotAllowed(user, route, method) ==
    /\ method \notin allowed_methods(route)
    /\ MethodNotAllowed_status(user, route, method) \in {403, 405}
    /\ UNCHANGED vars

\* Time passes between requests
Tick ==
    /\ now < MaxTime
    /\ now' = now + 1
    /\ UNCHANGED <<store, queryset_now, pending>>

\* QuestionManager.create called directly, as the tests' create_question does
CreateQuestionDirect(author, question_text, date_published, texts) ==
    /\ WriteDb(QuestionManager_create(CurrentDb, author, question_text,
                                      date_published, texts))
    /\ questions' # questions => next_question <= MaxQuestions
    /\ UNCHANGED <<votes, next_vote, now, queryset_now, pending>>

\* ----------------------------------------------------------- specification
Init ==
    /\ questions = {}
    /\ choices = {}
    /\ votes = {}
    /\ next_question = 1
    /\ next_choice = 1
    /\ next_vote = 1
    /\ now = 0
    /\ queryset_now = 0
    /\ pending = {}

\* Path ids and bodies of the requests tried in a state: every id handed out
\* so far and the first one not handed out yet
QuestionPks == 1..next_question
ChoicePks == 1..next_choice
VotePks == 1..next_vote
VoteBodies == [choice : {NoChoice} \cup ChoicePks, hide_voter : HideInputs]

\* Vote bodies that try to name the voter as well
VoteData ==
    [choice : {NoChoice} \cup ChoicePks, hide_voter : HideInputs,
     voter : {"omitted"} \cup Users]

PostQuestion(authors, lists) ==
    \E user \in authors, question_text \in QuestionTexts,
       date_published \in Dates, texts \in lists :
        QuestionViewSet_create(user, question_text, date_published, texts)
ListQuestions == \E user \in Requesters : QuestionViewSet_list(user)
GetQuestion ==
    \E user \in Requesters, pk \in QuestionPks :
        QuestionViewSet_retrieve(user, pk)
DeleteQuestion ==
    \E user \in Requesters, pk \in QuestionPks :
        QuestionViewSet_destroy(user, pk)
ListChoices ==
    \E user \in Requesters, question_pk \in QuestionPks :
        ChoiceViewSet_list(user, question_pk)
GetChoice ==
    \E user \in Requesters, question_pk \in QuestionPks, choice_pk \in ChoicePks :
        ChoiceViewSet_retrieve(user, question_pk, choice_pk)
ListVotes ==
    \E user \in Requesters, question_pk \in QuestionPks, choice_pk \in ChoicePks :
        VoteViewSet_list(user, question_pk, choice_pk)
\* initial() rejects an anonymous POST before the body is read
PostVote ==
    \E user \in Requesters :
        IF ~IsVoterOnly_has_permission(user) THEN UNCHANGED vars
        ELSE \E question_pk \in QuestionPks, choice_pk \in ChoicePks,
                body \in VoteBodies :
                VoteViewSet_create(user, question_pk, choice_pk, body)
GetVote ==
    \E user \in Requesters, choice_pk \in ChoicePks, vote_pk \in VotePks :
        \E question_pk \in QuestionPks :
            VoteViewSet_retrieve(user, question_pk, choice_pk, vote_pk)
\* get_object and the permission checks answer before the serializer reads
\* question_pk and the body
PutVote ==
    \E user \in Requesters, choice_pk \in ChoicePks, vote_pk \in VotePks :
        IF VoteViewSet_object_status(user, choice_pk, vote_pk, 200) # 200
        THEN UNCHANGED vars
        ELSE \E question_pk \in QuestionPks, body \in VoteBodies,
                method \in {"PUT", "PATCH"} :
                VoteViewSet_update(user, question_pk, choice_pk, vote_pk,
                                   body, method)
DeleteVote ==
    \E user \in Requesters, choice_pk \in ChoicePks, vote_pk \in VotePks :
        \E question_pk \in QuestionPks :
            VoteViewSet_destroy(user, question_pk, choice_pk, vote_pk)
OtherVerb ==
    \E user \in Requesters, route \in Routes, method \in Methods :
        MethodNotAllowed(user, route, method)
CallManager ==
    \E author \in Users, question_text \in QuestionTexts,
       date_published \in Dates, texts \in ManagerChoiceLists :
        CreateQuestionDirect(author, question_text, date_published, texts)

\* The API as served: every route and verb, and the clock.  Questions are
\* posted by one user (and refused to the anonymous one); every user votes.
Next ==
    \/ Tick
    \/ PostQuestion({"u1", AnonymousUser}, SmallChoiceLists)
    \/ ListQuestions
    \/ GetQuestion
    \/ DeleteQuestion
    \/ ListChoices
    \/ GetChoice
    \/ ListVotes
    \/ PostVote
    \/ GetVote
    \/ PutVote
    \/ DeleteVote
    \/ OtherVerb

Spec == Init /\ [][Next]_vars

\* The question endpoints with choice arrays around the limits 2 and 20
NextQuestions ==
    \/ Tick
    \/ PostQuestion(Requesters, BoundaryChoiceLists)
    \/ ListQuestions
    \/ GetQuestion
    \/ DeleteQuestion

SpecQuestions == Init /\ [][NextQuestions]_vars

\* The manager called directly, next to the question endpoints
NextManager ==
    \/ Tick
    \/ CallManager
    \/ PostQuestion(Requesters, SmallChoiceLists)
    \/ GetQuestion
    \/ DeleteQuestion

SpecManager == Init /\ [][NextManager]_vars

\* Vote POSTs served by several workers: the validation of a request and its
\* perform_create are separate steps, and other requests run in between.
\* Every POST names a stored choice under its own question, and in the body
\* no choice or a choice of that question.
BeginPostVote ==
    \E user \in Users, c \in choices :
        \E choice \in {NoChoice} \cup {d.id : d \in question_choices(choices, c.question)} :
            VoteViewSet_create_begin(user, c.question, c.id,
                                     [choice |-> choice, hide_voter |-> "omitted"])
FinishPostVote == \E request \in pending : VoteViewSet_create_finish(request)

NextConcurrent ==
    \/ Tick
    \/ PostQuestion({"u1"}, SmallChoiceLists)
    \/ BeginPostVote
    \/ FinishPostVote

SpecConcurrent == Init /\ [][NextConcurrent]_vars


\* ------------------------------------------------------------------ claims
\* "Published" as the data model states it: the publish date has passed and
\* the question has at least one choice.
IsPublished(q) ==
    q.date_published <= now /\ \E c \in choices : c.question = q.id
PublishedPks == {q.id : q \in {p \in questions : IsPublished(p)}}

\* The votes a voter holds on the choices of one question
VotesHeld(user, question_pk) ==
    {v \in votes : v.voter = user /\ question_of(v.choice) = question_pk}

\* C1: in every reachable state no voter holds two votes whose choices belong
\* to the same question.
C1_OneVotePerQuestion ==
    \A user \in Users, q \in questions : Cardinality(VotesHeld(user, q.id)) <= 1

\* C2: a vote POST (under the path of a published question) by a voter who
\* already holds a vote on a choice of question Q, and whose vote would land
\* on a choice of Q, taken from the body or from the path, is answered 400
\* and creates no vote.
C2_SecondVoteRejected ==
    \A user \in Users, question_pk \in PublishedPks, choice_pk \in ChoicePks,
       body \in VoteBodies :
        LET landing == perform_create_choice(choice_pk, body)
        IN  (ChoiceExists(landing) /\ VotesHeld(user, question_of(landing)) # {})
            => /\ VoteViewSet_create_status(user, question_pk, choice_pk, body) = 400
               /\ VoteViewSet_create_votes(user, question_pk, choice_pk, body) = votes

\* C3: the vote a successful POST creates, and the vote as a successful PUT
\* leaves it, is on a choice of the question named in the path, whether the
\* choice came from the body or from the path.
C3_VoteInPathQuestion ==
    /\ \A user \in Users, question_pk \in QuestionPks, choice_pk \in ChoicePks,
          body \in VoteBodies :
           VoteViewSet_create_status(user, question_pk, choice_pk, body) = 201
           => question_of(perform_create_choice(choice_pk, body)) = question_pk
    /\ \A user \in Users, question_pk \in QuestionPks, choice_pk \in ChoicePks,
          vote_pk \in VotePks, body \in VoteBodies :
           VoteViewSet_update_status(user, question_pk, choice_pk, vote_pk,
                                     body, "PUT") = 200
           => question_of(perform_update_row(VoteRow(vote_pk), body).choice)
                 = question_pk

\* A body choice that does not exist or is not a choice of the path's question
InvalidBodyChoice(question_pk, body) ==
    /\ body.choice # NoChoice
    /\ ~ChoiceExists(body.choice) \/ question_of(body.choice) # question_pk

\* C4: for an authenticated requester under the path of a published question,
\* a vote POST, or a PUT on the requester's own vote, whose body names a
\* choice that does not exist or is not a choice of the path's question is
\* answered 400 and leaves every vote as it was (none created; on PUT the
\* vote keeps its choice and its hide_voter).
C4_InvalidChoiceRejected ==
    \A user \in Users, question_pk \in PublishedPks, choice_pk \in ChoicePks,
       body \in VoteBodies :
        InvalidBodyChoice(question_pk, body) =>
          /\ VoteViewSet_create_status(user, question_pk, choice_pk, body) = 400
          /\ VoteViewSet_create_votes(user, question_pk, choice_pk, body) = votes
          /\ \A vote_pk \in VotePks :
                VoteViewSet_object_status(user, choice_pk, vote_pk, 200) = 200 =>
                  /\ VoteViewSet_update_status(user, question_pk, choice_pk,
                                               vote_pk, body, "PUT") = 400
                  /\ VoteViewSet_update_votes(user, question_pk, choice_pk,
                                              vote_pk, body, "PUT") = votes

\* C4 witness: a voter holds a vote under a published question while a second
\* question exists; a PUT naming the other question's choice and a PUT naming
\* a choice that does not exist are both answered 400.
C4_Witness ==
    \E v \in votes, other \in choices :
        /\ question_of(v.choice) \in PublishedPks
        /\ other.question # question_of(v.choice)
        /\ VoteViewSet_update_status(v.voter, question_of(v.choice), v.choice, v.id,
              [choice |-> other.id, hide_voter |-> "false"], "PUT") = 400
        /\ VoteViewSet_update_status(v.voter, question_of(v.choice), v.choice, v.id,
              [choice |-> next_choice, hide_voter |-> "false"], "PUT") = 400
        /\ v.hide_voter


\* C5: at every moment the question list, and retrieval by id, expose exactly
\* the stored questions whose date_published has passed and that have a
\* choice.
C5_ListShowsPublished ==
    /\ QuestionViewSet_queryset = {q \in questions : IsPublished(q)}
    /\ \A user \in Users, pk \in QuestionPks :
          QuestionViewSet_retrieve_status(user, pk) = 200 <=> pk \in PublishedPks

\* The texts of a choice array
TextsOf(texts) == {texts[i] : i \in 1..Len(texts)}
PairwiseDistinct(texts) == Cardinality(TextsOf(texts)) = Len(texts)

\* C6: QuestionManager.create is all-or-nothing: it fails exactly when the
\* question text is taken or a choice text repeats, and then leaves no new
\* question and no new choice; when it succeeds the store holds the new
\* question and exactly the N choices given, all attached to it.
C6_CreateAllOrNothing ==
    \A author \in Users, question_text \in QuestionTexts,
       date_published \in Dates, texts \in ManagerChoiceLists :
        LET db == QuestionManager_create(CurrentDb, author, question_text,
                                         date_published, texts)
            added == db.choices \ choices
        IN  /\ db.ok <=> /\ ~ \E q \in questions : q.question_text = question_text
                         /\ PairwiseDistinct(texts)
            /\ IF db.ok
               THEN /\ db.questions = questions \cup
                          {[id |-> next_question, author |-> author,
                            question_text |-> question_text,
                            date_published |-> date_published,
                            date_created |-> now]}
                    /\ choices \subseteq db.choices
                    /\ Cardinality(added) = Len(texts)
                    /\ \A c \in added : c.question = next_question
                    /\ {c.choice_text : c \in added} = TextsOf(texts)
               ELSE db.questions = questions /\ db.choices = choices

\* C6 witness: a question stored with its three choices, while a create that
\* repeats a choice text in third place (after the question and two choices
\* were written) and a create with the stored text both fail.
C6_Witness ==
    \E q \in questions, question_text \in QuestionTexts :
        /\ Cardinality(question_choices(choices, q.id)) = 3
        /\ question_text # q.question_text
        /\ ~QuestionManager_create(CurrentDb, "u1", question_text, 0, <<1, 2, 2>>).ok
        /\ ~QuestionManager_create(CurrentDb, "u1", q.question_text, 0, <<1, 2>>).ok
        /\ QuestionManager_create(CurrentDb, "u1", question_text, 0, <<1, 2>>).ok

\* C7: a question POST by an authenticated user is answered 201 only if the
\* choice array has 2 to 20 entries with pairwise distinct texts; with fewer
\* than 2, more than 20, or a repeated text it is answered 400 and stores
\* no question and no choice.
C7_ChoiceArrayLimits ==
    \A user \in Users, question_text \in QuestionTexts,
       date_published \in Dates, texts \in BoundaryChoiceLists :
        LET status == QuestionViewSet_create_status(user, question_text,
                                                    date_published, texts)
            wellformed == /\ Len(texts) >= 2
                          /\ Len(texts) <= 20
                          /\ PairwiseDistinct(texts)
        IN  /\ status = 201 => wellformed
            /\ ~wellformed =>
                  /\ status = 400
                  /\ QuestionViewSet_create_db(user, question_text,
                                               date_published, texts) = CurrentDb

\* C7 witness: a question stored with 20 choices, while a free question text
\* is accepted with 20 distinct choices and refused with 21.
C7_Witness ==
    \E q \in questions, question_text \in QuestionTexts :
        /\ Cardinality(question_choices(choices, q.id)) = 20
        /\ QuestionViewSet_create_status("u1", question_text, 0, DistinctTexts(20)) = 201
        /\ QuestionViewSet_create_status("u1", question_text, 0, DistinctTexts(21)) = 400
        /\ QuestionViewSet_create_status("u1", question_text, 0, <<1>>) = 400

\* No two stored questions share a text, and a POST whose text is stored
\* (published or not) is answered 400 and stores nothing.
C8_TextTaken ==
    /\ \A q1, q2 \in questions :
          q1.question_text = q2.question_text => q1 = q2
    /\ \A user \in Users, question_text \in QuestionTexts,
          date_published \in Dates, texts \in BoundaryChoiceLists :
           (\E q \in questions : q.question_text = question_text) =>
              /\ QuestionViewSet_create_status(user, question_text,
                                               date_published, texts) = 400
              /\ QuestionViewSet_create_db(user, question_text,
                                           date_published, texts) = CurrentDb

\* Once a question is deleted a POST with its text is accepted.
C8_TextFreed ==
    \A q \in questions :
        q \notin questions' =>
            (QuestionViewSet_create_status("u1", q.question_text,
                                           q.date_published, <<1, 2>>) = 201)'

\* C8: after any creations and deletions no two stored questions have the
\* same question_text; a create with a stored text, published or not, is
\* answered 400 and stores nothing; the text is accepted again once that
\* question is deleted.
C8_UniqueQuestionText == []C8_TextTaken /\ [][C8_TextFreed]_vars

\* C8 witness: question 1 was deleted and question 2 is stored, not yet
\* published; its text is refused and the other text is accepted.
C8_Witness ==
    \E q \in questions, question_text \in QuestionTexts :
        /\ q.id = 2
        /\ ~QuestionExists(1)
        /\ q.date_published > now
        /\ QuestionViewSet_create_status("u2", q.question_text, 0, <<1, 2>>) = 400
        /\ QuestionViewSet_create_status("u2", question_text, 0, <<1, 2>>) = 201

\* C9: a request without an authenticated identity is answered 403 on every
\* route and verb, whatever ids the path names (stored or not) and whatever
\* the body, and it leaves the store unchanged.
C9_AnonymousForbidden ==
    /\ QuestionViewSet_list_status(AnonymousUser) = 403
    /\ \A question_text \in QuestionTexts, date_published \in Dates,
          texts \in SmallChoiceLists :
           /\ QuestionViewSet_create_status(AnonymousUser, question_text,
                                            date_published, texts) = 403
           /\ QuestionViewSet_create_db(AnonymousUser, question_text,
                                        date_published, texts) = CurrentDb
    /\ \A route \in Routes :
          \A method \in Methods \ allowed_methods(route) :
              MethodNotAllowed_status(AnonymousUser, route, method) = 403
    /\ \A question_pk \in QuestionPks :
        /\ QuestionViewSet_retrieve_status(AnonymousUser, question_pk) = 403
        /\ QuestionViewSet_destroy_status(AnonymousUser, question_pk) = 403
        /\ QuestionViewSet_destroy_rows(AnonymousUser, question_pk) = CurrentRows
        /\ ChoiceViewSet_list_status(AnonymousUser, question_pk) = 403
        /\ \A choice_pk \in ChoicePks :
            /\ ChoiceViewSet_retrieve_status(AnonymousUser, question_pk, choice_pk) = 403
            /\ VoteViewSet_list_status(AnonymousUser, question_pk, choice_pk) = 403
            /\ \A body \in VoteBodies :
                /\ VoteViewSet_create_status(AnonymousUser, question_pk,
                                             choice_pk, body) = 403
                /\ VoteViewSet_create_votes(AnonymousUser, question_pk,
                                            choice_pk, body) = votes
            /\ \A vote_pk \in VotePks :
                /\ VoteViewSet_retrieve_status(AnonymousUser, question_pk,
                                               choice_pk, vote_pk) = 403
                /\ VoteViewSet_destroy_status(AnonymousUser, question_pk,
                                              choice_pk, vote_pk) = 403
                /\ VoteViewSet_destroy_votes(AnonymousUser, question_pk,
                                             choice_pk, vote_pk) = votes
                /\ \A body \in VoteBodies, method \in {"PUT", "PATCH"} :
                    /\ VoteViewSet_update_status(AnonymousUser, question_pk,
                                                 choice_pk, vote_pk, body, method) = 403
                    /\ VoteViewSet_update_votes(AnonymousUser, question_pk,
                                                choice_pk, vote_pk, body, method) = votes

\* C9 witness: a vote is stored on a question the viewset serves; the
\* anonymous DELETE of that vote and of that question, and the anonymous GET
\* of a vote and a question that do not exist, are all answered 403.
C9_Witness ==
    \E v \in votes :
        /\ QuestionViewSet_has_object(question_of(v.choice))
        /\ VoteViewSet_destroy_status(AnonymousUser, question_of(v.choice),
                                      v.choice, v.id) = 403
        /\ QuestionViewSet_destroy_status(AnonymousUser, question_of(v.choice)) = 403
        /\ VoteViewSet_retrieve_status(AnonymousUser, next_question,
                                       next_choice, next_vote) = 403
        /\ QuestionViewSet_retrieve_status(AnonymousUser, next_question) = 403
        /\ QuestionViewSet_retrieve_status(v.voter, next_question) = 404

\* C10: DELETE of a published question is answered 204 for its author and
\* 403, with the question, its choices and their votes kept, for every other
\* authenticated user; GET of it is answered 200 for every authenticated user.
C10_AuthorOnlyDelete ==
    \A q \in questions, user \in Users :
        IsPublished(q) =>
            /\ QuestionViewSet_retrieve_status(user, q.id) = 200
            /\ QuestionViewSet_destroy_status(user, q.id)
                  = IF user = q.author THEN 204 ELSE 403
            /\ user # q.author =>
                  QuestionViewSet_destroy_rows(user, q.id) = CurrentRows


\* C11: a PUT, PATCH or DELETE addressed to a stored vote (under its choice)
\* by an authenticated user who is not its voter is answered 403, whatever
\* the path's question and the body; and no vote PUT, PATCH or DELETE, by
\* anyone and under any path, changes or removes a vote of another voter.
C11_VoterOnlyWrite ==
    /\ \A v \in votes : \A user \in Users \ {v.voter}, question_pk \in QuestionPks :
          /\ VoteViewSet_destroy_status(user, question_pk, v.choice, v.id) = 403
          /\ \A body \in VoteBodies, method \in {"PUT", "PATCH"} :
                VoteViewSet_update_status(user, question_pk, v.choice, v.id,
                                          body, method) = 403
    /\ \A user \in Requesters, question_pk \in QuestionPks,
          choice_pk \in ChoicePks, vote_pk \in VotePks :
          \A v \in votes :
              v.voter # user =>
                /\ v \in VoteViewSet_destroy_votes(user, question_pk,
                                                   choice_pk, vote_pk)
                /\ \A body \in VoteBodies, method \in {"PUT", "PATCH"} :
                      v \in VoteViewSet_update_votes(user, question_pk, choice_pk,
                                                     vote_pk, body, method)

\* C11 witness: a stored vote that another user's DELETE and PUT are refused
\* with 403, while its voter's DELETE would be answered 204 and its voter's
\* PUT 200.
C11_Witness ==
    \E v \in votes, user \in Users :
        /\ user # v.voter
        /\ VoteViewSet_destroy_status(user, question_of(v.choice), v.choice, v.id) = 403
        /\ VoteViewSet_update_status(user, question_of(v.choice), v.choice, v.id,
              [choice |-> NoChoice, hide_voter |-> "false"], "PUT") = 403
        /\ VoteViewSet_destroy_status(v.voter, question_of(v.choice),
                                      v.choice, v.id) = 204
        /\ VoteViewSet_update_status(v.voter, question_of(v.choice), v.choice, v.id,
              [choice |-> NoChoice, hide_voter |-> "false"], "PUT") = 200
        /\ v.hide_voter

\* C12 as stated: every authenticated user, the voter or not, is answered 200
\* on the vote list of a choice and on the retrieval of a single vote.
C12_AnyoneReadsVotes ==
    \A v \in votes, user \in Users :
        /\ VoteViewSet_list_status(user, question_of(v.choice), v.choice) = 200
        /\ VoteViewSet_retrieve_status(user, question_of(v.choice),
                                       v.choice, v.id) = 200

\* C12 amended: every authenticated user is answered 200 on the vote list of
\* a choice, which shows the votes cast by others too; the retrieval of a
\* single vote is answered 200, with the vote, to its voter only and 403 to
\* every other authenticated user.
C12_ListForAllDetailForVoter ==
    \A v \in votes, user \in Users :
        /\ VoteViewSet_list_status(user, question_of(v.choice), v.choice) = 200
        /\ VoteSerializer_data(v) \in VoteViewSet_list_data(votes, v.choice)
        /\ VoteViewSet_retrieve_status(user, question_of(v.choice), v.choice, v.id)
              = IF user = v.voter THEN 200 ELSE 403
        /\ VoteViewSet_retrieve_status(user, question_of(v.choice), v.choice, v.id)
              = VoteViewSet_retrieve_response(user, v).status

\* C12 witness: a vote cast by one user and a second user who is answered 200
\* on the list of the vote's choice and 403 on the vote itself.
C12_Witness ==
    \E v \in votes, user \in Users :
        /\ user # v.voter
        /\ VoteViewSet_list_status(user, question_of(v.choice), v.choice) = 200
        /\ VoteViewSet_list_data(votes, v.choice) # {}
        /\ VoteViewSet_retrieve_status(user, question_of(v.choice),
                                       v.choice, v.id) = 403


\* C13: in every reachable state every choice references a stored question
\* and every vote a stored choice; a question DELETE answered 204 leaves
\* exactly the other questions, the choices of the other questions and the
\* votes on those choices.
C13_CascadeDelete ==
    /\ \A c \in choices : QuestionExists(c.question)
    /\ \A v \in votes : ChoiceExists(v.choice)
    /\ \A user \in Users, pk \in QuestionPks :
          QuestionViewSet_destroy_status(user, pk) = 204 =>
            LET rows == QuestionViewSet_destroy_rows(user, pk)
            IN  /\ rows.questions = {q \in questions : q.id # pk}
                /\ rows.choices = {c \in choices : c.question # pk}
                /\ rows.votes = {v \in votes : question_of(v.choice) # pk}

\* C13 witness: two questions each hold a vote, and the DELETE of one of
\* them by its author is answered 204.
C13_Witness ==
    \E v \in votes, w \in votes :
        /\ question_of(v.choice) # question_of(w.choice)
        /\ QuestionViewSet_destroy_status(QuestionRow(question_of(v.choice)).author,
                                          question_of(v.choice)) = 204
        /\ QuestionViewSet_destroy_rows(QuestionRow(question_of(v.choice)).author,
                                        question_of(v.choice)).votes = {w}

\* The number of rows of vs that reference the choice
VoteCount(vs, choice_pk) == Cardinality({v \in vs : v.choice = choice_pk})

\* C14: the vote_count of a choice is the number of stored votes that
\* reference it (0 when there are none); a vote POST answered 201 raises the
\* count of exactly one choice by 1 and a vote DELETE answered 204 lowers the
\* count of exactly one choice by 1, every other count staying as it was.
C14_VoteCount ==
    /\ \A c \in choices :
          /\ with_vote_count(c.id) = VoteCount(votes, c.id)
          /\ (\A v \in votes : v.choice # c.id) => with_vote_count(c.id) = 0
    /\ \A user \in Users, question_pk \in QuestionPks, choice_pk \in ChoicePks,
          body \in VoteBodies :
          VoteViewSet_create_status(user, question_pk, choice_pk, body) = 201 =>
            LET after == VoteViewSet_create_votes(user, question_pk, choice_pk, body)
            IN  \E c \in choices :
                  /\ VoteCount(after, c.id) = with_vote_count(c.id) + 1
                  /\ \A d \in choices \ {c} :
                        VoteCount(after, d.id) = with_vote_count(d.id)
    /\ \A user \in Users, question_pk \in QuestionPks, choice_pk \in ChoicePks,
          vote_pk \in VotePks :
          VoteViewSet_destroy_status(user, question_pk, choice_pk, vote_pk) = 204 =>
            LET after == VoteViewSet_destroy_votes(user, question_pk,
                                                   choice_pk, vote_pk)
            IN  \E c \in choices :
                  /\ VoteCount(after, c.id) = with_vote_count(c.id) - 1
                  /\ \A d \in choices \ {c} :
                        VoteCount(after, d.id) = with_vote_count(d.id)

\* C14 witness: two voters hold a vote on the same choice (its count is 2),
\* another choice has none, and the DELETE of one of the votes by its voter
\* is answered 204.
C14_Witness ==
    \E v \in votes, w \in votes, c \in choices :
        /\ v.id # w.id /\ v.choice = w.choice
        /\ with_vote_count(v.choice) = 2
        /\ with_vote_count(c.id) = 0
        /\ VoteViewSet_destroy_status(v.voter, question_of(v.choice),
                                      v.choice, v.id) = 204

\* C15: a PUT by the voter, under the vote's own path, that names another
\* choice B of the vote's (published) question is answered 200, not refused
\* as multiple voting; it lowers the count of the old choice A by 1, raises
\* B's by 1 and keeps the number of votes and the vote's id and voter.
C15_PutMovesVote ==
    \A v \in votes, b \in choices, hide \in HideInputs :
        (/\ b.question = question_of(v.choice)
         /\ b.id # v.choice
         /\ b.question \in PublishedPks) =>
            LET body == [choice |-> b.id, hide_voter |-> hide]
                after == VoteViewSet_update_votes(v.voter, b.question, v.choice,
                                                  v.id, body, "PUT")
            IN  /\ VoteViewSet_update_status(v.voter, b.question, v.choice,
                                             v.id, body, "PUT") = 200
                /\ VoteCount(after, v.choice) = with_vote_count(v.choice) - 1
                /\ VoteCount(after, b.id) = with_vote_count(b.id) + 1
                /\ Cardinality(after) = Cardinality(votes)
                /\ \E w \in after :
                      w.id = v.id /\ w.voter = v.voter /\ w.choice = b.id


\* The vote rows with the vote v cast by user instead of its voter, and
\* whether that store respects unique_voters_per_choice
CastBy(v, user) == [v EXCEPT !.voter = user]
VotesCastBy(v, user) == (votes \ {v}) \cup {CastBy(v, user)}
MayBeCastBy(v, user) ==
    \A w \in votes \ {v} : ~(w.voter = user /\ w.choice = v.choice)

\* How the reads show each stored vote: the list of its choice holds its id
\* with "*******" when hide_voter is true and with the voter's username when
\* it is false, and so does the detail its voter gets.
ShownAsHideVoterSays ==
    \A v \in votes :
        LET shown == [id |-> v.id,
                      voter_username |-> IF v.hide_voter THEN "*******" ELSE v.voter]
        IN  /\ shown \in VoteViewSet_list_data(votes, v.choice)
            /\ \A d \in VoteViewSet_list_data(votes, v.choice) :
                  d.id = v.id => d = shown
            /\ VoteViewSet_retrieve_response(v.voter, v)
                  = [status |-> 200, data |-> shown]

\* Two stores that differ only in who cast a hidden vote give the same vote
\* lists
HiddenVoterSameLists ==
    \A v \in votes, user \in Users :
        (v.hide_voter /\ MayBeCastBy(v, user)) =>
            \A choice_pk \in ChoicePks :
                VoteViewSet_list_data(VotesCastBy(v, user), choice_pk)
                    = VoteViewSet_list_data(votes, choice_pk)

\* Two stores that differ only in who cast a hidden vote answer the GET of
\* that vote alike, whoever asks
HiddenVoterSameDetail ==
    \A v \in votes, user \in Users, requester \in Users :
        (v.hide_voter /\ MayBeCastBy(v, user)) =>
            VoteViewSet_retrieve_response(requester, CastBy(v, user))
                = VoteViewSet_retrieve_response(requester, v)

\* A vote created from a body without hide_voter has hide_voter = true
HideVoterDefault ==
    \A user \in Users, question_pk \in QuestionPks, choice_pk \in ChoicePks,
       choice \in {NoChoice} \cup ChoicePks :
        LET body == [choice |-> choice, hide_voter |-> "omitted"]
        IN  VoteViewSet_create_status(user, question_pk, choice_pk, body) = 201 =>
              \A v \in VoteViewSet_create_votes(user, question_pk, choice_pk, body)
                          \ votes : v.hide_voter

\* C16 as stated: every read (list and detail) shows a hidden vote with
\* "*******" and a vote that is not hidden with its voter's username; two
\* stores that differ only in who cast a hidden vote give identical read
\* responses, list and detail; a vote created without hide_voter is hidden.
C16_HiddenVoterIdenticalReads ==
    /\ ShownAsHideVoterSays
    /\ HiddenVoterSameLists
    /\ HiddenVoterSameDetail
    /\ HideVoterDefault

\* C16 amended: every read that shows a vote (the list, and the detail, which
\* only the voter is given) shows a hidden vote with "*******" and a vote
\* that is not hidden with its voter's username; two stores that differ only
\* in who cast a hidden vote give identical vote lists, while the detail is
\* answered 200 to the voter and 403 to every other user in either store; a
\* vote created without hide_voter is hidden.
C16_HiddenVoterNotShown ==
    /\ ShownAsHideVoterSays
    /\ HiddenVoterSameLists
    /\ \A v \in votes, user \in Users, requester \in Users :
          VoteViewSet_retrieve_response(requester, CastBy(v, user))
            = IF requester = user
              THEN [status |-> 200, data |-> VoteSerializer_data(CastBy(v, user))]
              ELSE [status |-> 403]
    /\ \A v \in votes, user \in Users :
          v.hide_voter =>
            VoteSerializer_data(CastBy(v, user)).voter_username \notin Users
    /\ HideVoterDefault

\* C16 witness: a vote created without hide_voter in the body would be stored
\* next to a hidden vote of one user and an open vote of another on the same
\* choice, whose list shows "*******" and the second user's name.
C16_Witness ==
    \E v \in votes, w \in votes :
        /\ v.hide_voter /\ ~w.hide_voter /\ v.choice = w.choice
        /\ VoteViewSet_list_data(votes, v.choice)
              = {[id |-> v.id, voter_username |-> "*******"],
                 [id |-> w.id, voter_username |-> w.voter]}
        /\ \E question \in questions, c \in choices :
              /\ c.question = question.id
              /\ question.id # question_of(v.choice)
              /\ VoteViewSet_create_status(v.voter, question.id, c.id,
                    [choice |-> NoChoice, hide_voter |-> "omitted"]) = 201


\* No verb other than GET and DELETE on a question and other than GET on the
\* choice routes is served: an authenticated user is answered 405
NoUpdateEndpoint ==
    \A user \in Users :
        /\ \A method \in {"PUT", "PATCH"} :
              /\ method \notin allowed_methods("question-detail")
              /\ MethodNotAllowed_status(user, "question-detail", method) = 405
        /\ \A route \in {"question-choice-list", "question-choice-detail"},
              method \in {"POST", "PUT", "PATCH", "DELETE"} :
              /\ method \notin allowed_methods(route)
              /\ MethodNotAllowed_status(user, route, method) = 405

\* A step keeps every question that is still stored after it, with its
\* author, question_text, date_published and date_created, and with exactly
\* the choices it had; a step that stores a new vote, or changes or removes a
\* vote whose choice stays, changes no question and no choice.
QuestionsAndChoicesKept ==
    /\ \A q \in questions :
          (\E p \in questions' : p.id = q.id) =>
              /\ q \in questions'
              /\ question_choices(choices', q.id) = question_choices(choices, q.id)
    /\ next_vote' # next_vote => UNCHANGED <<questions, choices>>
    /\ (\E v \in votes : v \notin votes' /\ \E c \in choices' : c.id = v.choice)
          => UNCHANGED <<questions, choices>>

\* C17: between a question's creation and its deletion no request changes
\* its author, question_text, date_published or date_created, or adds, edits
\* or removes one of its choices: PUT and PATCH on a question and POST, PUT,
\* PATCH and DELETE on choices are answered 405, and vote operations leave
\* questions and choices untouched.
C17_QuestionsImmutable == []NoUpdateEndpoint /\ [][QuestionsAndChoicesKept]_vars

\* C17 witness: a question created at an earlier time holds a vote, a second
\* question is stored, and a PUT on the first is answered 405.
C17_Witness ==
    \E q \in questions, p \in questions, v \in votes :
        /\ q.date_created < now
        /\ p.id # q.id
        /\ question_of(v.choice) = q.id
        /\ MethodNotAllowed_status(v.voter, "question-detail", "PUT") = 405


\* C18: a vote POST by an authenticated user under a path whose question
\* does not exist or is not published, or without a body choice under a path
\* whose choice does not exist, and a PUT by the voter on their own vote
\* under a path whose question does not exist or is not published, is
\* answered 404 and creates or changes no vote.
C18_MissingPathIsNotFound ==
    \A user \in Users, question_pk \in QuestionPks, choice_pk \in ChoicePks,
       body \in VoteBodies :
        /\ (/\ body.choice = NoChoice \/ ChoiceExists(body.choice)
            /\ \/ question_pk \notin PublishedPks
               \/ body.choice = NoChoice /\ ~ChoiceExists(choice_pk)) =>
              /\ VoteViewSet_create_status(user, question_pk, choice_pk, body) = 404
              /\ VoteViewSet_create_votes(user, question_pk, choice_pk, body) = votes
        /\ \A vote_pk \in VotePks :
              (/\ question_pk \notin PublishedPks
               /\ VoteViewSet_object_status(user, choice_pk, vote_pk, 200) = 200) =>
                /\ VoteViewSet_update_status(user, question_pk, choice_pk,
                                             vote_pk, body, "PUT") = 404
                /\ VoteViewSet_update_votes(user, question_pk, choice_pk,
                                            vote_pk, body, "PUT") = votes

\* C19: for an authenticated user, GET, PUT and DELETE of a vote are answered
\* 404, and change nothing, whenever no stored vote has the path's vote id
\* and the path's choice, or the path's question does not exist or does not
\* own the path's choice.
C19_VoteOnlyUnderItsPath ==
    \A user \in Users, question_pk \in QuestionPks, choice_pk \in ChoicePks,
       vote_pk \in VotePks :
        (\/ ~ \E v \in votes : v.id = vote_pk /\ v.choice = choice_pk
         \/ ~QuestionExists(question_pk)
         \/ ~ChoiceExists(choice_pk)
         \/ question_of(choice_pk) # question_pk) =>
            /\ VoteViewSet_retrieve_status(user, question_pk, choice_pk, vote_pk) = 404
            /\ VoteViewSet_destroy_status(user, question_pk, choice_pk, vote_pk) = 404
            /\ VoteViewSet_destroy_votes(user, question_pk, choice_pk, vote_pk) = votes
            /\ \A body \in VoteBodies :
                  /\ VoteViewSet_update_status(user, question_pk, choice_pk,
                                               vote_pk, body, "PUT") = 404
                  /\ VoteViewSet_update_votes(user, question_pk, choice_pk,
                                              vote_pk, body, "PUT") = votes

\* Every order the list may come in has the later date_published first
ListOrdered ==
    \A s \in QuestionViewSet_list_data :
        \A i, j \in DOMAIN s :
            s[i].date_published > s[j].date_published => i < j

\* C20: the question list is ordered by date_published descending, and it
\* holds the questions of the store that are published at the time of the
\* request: questions created before it are in it, deleted ones are not.
C20_ListOrderedAndCurrent ==
    /\ ListOrdered
    /\ \A s \in QuestionViewSet_list_data :
          {s[i] : i \in DOMAIN s} = {q \in questions : IsPublished(q)}


\* C21: with the validation and the insert of a vote POST as separate steps,
\* and every POST naming a choice of the question in its path, no
\* interleaving of POSTs leaves a voter with votes on two different choices
\* of one question.
C21_ConcurrentPostsOneVote ==
    \A v \in votes, w \in votes :
        (v.voter = w.voter /\ v.choice # w.choice)
            => question_of(v.choice) # question_of(w.choice)


\* The owner each create writes: the question a 201 POST stores has the
\* requester as author, and the vote a 201 POST stores has the requester as
\* voter, whatever choice, hide_voter and voter the body names; a PUT or
\* PATCH on a stored vote, by anyone and with any body, keeps its voter.
OwnerIsRequester ==
    /\ \A user \in Users, question_text \in QuestionTexts,
          date_published \in Dates, texts \in SmallChoiceLists :
          QuestionViewSet_create_status(user, question_text,
                                        date_published, texts) = 201 =>
            LET created == QuestionViewSet_create_db(user, question_text,
                              date_published, texts).questions \ questions
            IN  /\ Cardinality(created) = 1
                /\ \A q \in created : q.author = user
    /\ \A user \in Users, question_pk \in QuestionPks, choice_pk \in ChoicePks,
          data \in VoteData :
          LET body == VoteSerializer_to_internal_value(data)
          IN  VoteViewSet_create_status(user, question_pk, choice_pk, body) = 201 =>
                LET created == VoteViewSet_create_votes(user, question_pk,
                                                        choice_pk, body) \ votes
                IN  /\ Cardinality(created) = 1
                    /\ \A v \in created : v.voter = user
    /\ \A v \in votes, user \in Users, question_pk \in QuestionPks,
          data \in VoteData, method \in {"PUT", "PATCH"} :
          \E w \in VoteViewSet_update_votes(user, question_pk, v.choice, v.id,
                   VoteSerializer_to_internal_value(data), method) :
              w.id = v.id /\ w.voter = v.voter

\* No step changes the author of a question or the voter of a vote that is
\* still stored after it
OwnerKept ==
    /\ \A q \in questions : \A p \in questions' :
          p.id = q.id => p.author = q.author
    /\ \A v \in votes : \A w \in votes' : w.id = v.id => w.voter = v.voter

\* C22: the owner of a row is the requester that created it and never
\* changes: a created question's author and a created vote's voter are the
\* authenticated user who sent the POST, whatever the body contains, and no
\* later request, a PUT on the vote included, changes them.
C22_OwnerIsCreator == []OwnerIsRequester /\ [][OwnerKept]_vars

\* C22 witness: a user holds a vote on a question of another author, and the
\* voter's PUT whose body names that author as voter and another choice is
\* answered 200.
C22_Witness ==
    \E v \in votes, c \in choices :
        /\ QuestionRow(question_of(v.choice)).author # v.voter
        /\ c.question = question_of(v.choice) /\ c.id # v.choice
        /\ VoteViewSet_update_status(v.voter, c.question, v.choice, v.id,
              VoteSerializer_to_internal_value(
                  [choice |-> c.id, hide_voter |-> "false",
                   voter |-> QuestionRow(c.question).author]), "PUT") = 200


\* C23: for every stored question whose date_published is in the future and
\* every authenticated user, its author included, GET and DELETE of
\* /polls/{id}/ are answered 404, the DELETE leaves every row as it was, and
\* a POST of a question with the same question_text is still refused (400).
C23_UnpublishedUnreachable ==
    \A q \in questions :
        q.date_published > now =>
            /\ \A user \in Users :
                /\ QuestionViewSet_retrieve_status(user, q.id) = 404
                /\ QuestionViewSet_destroy_status(user, q.id) = 404
                /\ \A date_published \in Dates :
                      QuestionViewSet_create_status(user, q.question_text,
                          date_published, <<1, 2>>) = 400
            /\ \A user \in Requesters :
                  QuestionViewSet_destroy_rows(user, q.id) = CurrentRows

\* C23 witness: an author has a question dated in the future, answered 404 to
\* their own DELETE, next to a published question whose DELETE would be
\* answered 204.
C23_Witness ==
    \E q \in questions, p \in questions :
        /\ q.date_published > now
        /\ question_choices(choices, q.id) # {}
        /\ QuestionViewSet_destroy_status(q.author, q.id) = 404
        /\ QuestionViewSet_retrieve_status(q.author, q.id) = 404
        /\ p.author = q.author
        /\ QuestionViewSet_destroy_status(p.author, p.id) = 204


\* A voter who holds no stored vote on a published question is accepted (201)
\* on each of its choices, named by the path or by the body, whatever votes
\* other voters hold on it
OthersVotesIgnored ==
    \A user \in Users, c \in choices :
        (c.question \in PublishedPks /\ VotesHeld(user, c.question) = {}) =>
            \A choice \in {NoChoice}
                          \cup {d.id : d \in question_choices(choices, c.question)},
               hide \in HideInputs :
                VoteViewSet_create_status(user, c.question, c.id,
                    [choice |-> choice, hide_voter |-> hide]) = 201

\* A step that removes a vote and keeps its (published) question: right after
\* it, a POST by the vote's voter on each choice of that question is
\* answered 201
DeletedVoteForgotten ==
    \A v \in votes :
        (/\ \A w \in votes' : w.id # v.id
         /\ \E c \in choices' : c.id = v.choice
         /\ question_of(v.choice) \in PublishedPks) =>
            \A c \in question_choices(choices, question_of(v.choice)) :
                VoteViewSet_create_status(v.voter, c.question, c.id,
                    [choice |-> NoChoice, hide_voter |-> "omitted"])' = 201

\* C24: the one-vote-per-question rule depends only on the stored votes:
\* after a voter's DELETE of their own vote on a question, that voter's POST
\* on any choice of the question is accepted (201), and a POST by a voter
\* who holds no vote on the question is never refused because of the votes
\* of others.
C24_RuleFollowsStoredVotes ==
    []OthersVotesIgnored /\ [][DeletedVoteForgotten]_vars

=============================================================================
